---- MODULE Spec2Model ----
(***************************************************************************)
(* Model of streamlit_app.py: one browser session of the AI Test Case      *)
(* Generator front end.  The script is re-executed from the top on every   *)
(* widget interaction.  A run is modelled as the user event that starts it *)
(* and one step for each stretch of the script between two waits: the      *)
(* health request of the sidebar, the extraction, the pause before the     *)
(* POST, the POST itself, the pause after it, and the rendering of the     *)
(* answer.  A widget event that arrives while a run waits is served when   *)
(* the wait is over: the run is stopped at its next st.* call, nothing of  *)
(* what it computed is rendered, and the script is re-executed with the    *)
(* new widget values (events that arrive during the same wait are merged   *)
(* into one re-execution, a pressed button staying pressed).               *)
(*                                                                         *)
(* A requirements text is a sequence of Unicode code points (naturals), a  *)
(* raw upload a sequence of bytes.  A str of a JSON body is a sequence of  *)
(* string chunks whose concatenation is the str: one chunk per character   *)
(* for the test cases and everything inside the test_cases value, whole    *)
(* pieces for keys and messages (an f-string keeps its pieces).            *)
(***************************************************************************)
EXTENDS Integers, Sequences, FiniteSets, TLC

\* Longest raw content of the enumerated .txt uploads.
MaxBytes == 3
\* Longest paragraph list of the enumerated .docx uploads.
MaxParas == 3
\* Longest enumerated test-case string of the renderer runs.
MaxCaseLen == 7
\* Longest enumerated test-case list of the export runs.
MaxCases == 3

VARIABLES
    uploaded_file,   \* value of st.file_uploader (NoFile when empty)
    srs_text,        \* the script's srs_text: None, "" or the extracted text
    pc,              \* position of the run: "idle" (no run in progress),
                     \* "health", "extract", "connecting", "generating",
                     \* "formatting"
    clicked,         \* st.button("Generate Test Cases") is True in this run
    health_clicked,  \* st.button("Check Backend Status") is True in this run
    rendered,        \* widgets and sections the current run has rendered
    file_error,      \* st.error of extract_text_from_file was shown
    stats,           \* content statistics shown (character and word count)
    warning,         \* content warning shown: "none", "truncate", "short"
    preview_text,    \* content of the preview text area
    request,         \* the POST issued by this run
    outcome,         \* what happened to that POST (the environment's answer)
    status_code,     \* first component returned by generate_test_cases_api
    response_data,   \* second component returned by generate_test_cases_api
    panel,           \* result box of this run: "none", "success", "no_cases",
                     \* "failed"
    blocks,          \* rendered test-case expanders
    export_text,     \* data of the download button
    error_msg,       \* message shown in the Generation Failed box
    tip,             \* st.info suggestion shown: "none", "shorten", "wait"
    health_panel,    \* sidebar status box and what it displays
    exception,       \* uncaught exception that ended the run, with its line
    from_panel       \* result box on screen when the current run was started

vars == << uploaded_file, srs_text, pc, clicked, health_clicked, rendered,
           file_error, stats, warning, preview_text, request, outcome,
           status_code, response_data, panel, blocks, export_text, error_msg,
           tip, health_panel, exception, from_panel >>

(***************************************************************************)
(* Sequences                                                               *)
(***************************************************************************)
\* All sequences over S of length at most n.
SeqsUpTo(S, n) == UNION { [1..k -> S] : k \in 0..n }

\* sep.join(parts)
RECURSIVE Join(_, _)
Join(parts, sep) ==
    IF Len(parts) = 0 THEN << >>
    ELSE IF Len(parts) = 1 THEN parts[1]
    ELSE parts[1] \o sep \o Join(Tail(parts), sep)

\* s[i:] of Python, i counted from 0.
DropFirst(s, i) == SubSeq(s, i + 1, Len(s))

\* s[:i] of Python.
TakeFirst(s, i) == SubSeq(s, 1, IF i < Len(s) THEN i ELSE Len(s))

\* sep occurs in s at (1-based) position i.
OccursAt(s, sep, i) ==
    /\ i >= 1
    /\ i + Len(sep) - 1 <= Len(s)
    /\ \A k \in 1..Len(sep) : s[i + k - 1] = sep[k]

\* sep in s
Contains(s, sep) == \E i \in 1..Len(s) : OccursAt(s, sep, i)

\* str.split(sep): cut at the leftmost occurrence, then split the rest.
RECURSIVE Split(_, _)
Split(s, sep) ==
    IF ~Contains(s, sep) THEN << s >>
    ELSE LET i == CHOOSE j \in 1..Len(s) :
                      /\ OccursAt(s, sep, j)
                      /\ \A h \in 1..(j - 1) : ~OccursAt(s, sep, h)
         IN << SubSeq(s, 1, i - 1) >> \o Split(DropFirst(s, i + Len(sep) - 1), sep)

(***************************************************************************)
(* Uploaded files                                                          *)
(***************************************************************************)
\* An uploaded file: its name, its raw bytes, and what python-docx makes of
\* it (whether the container opens, and the texts of its body paragraphs).
File(name, bytes, docx_ok, paragraphs) ==
    [name |-> name, bytes |-> bytes, docx_ok |-> docx_ok, paragraphs |-> paragraphs]

\* The uploader holds no file.
NoFile == File("", << >>, FALSE, << >>)

\* uploaded_file.name.endswith(suffix), for the names of the model.
EndsWith(name, suffix) ==
    \/ name = "srs.txt" /\ suffix = ".txt"
    \/ name = "srs.docx" /\ suffix = ".docx"

\* A Python value that is None or a str.
None == [none |-> TRUE, s |-> << >>]
Str(s) == [none |-> FALSE, s |-> s]

\* bool(v) of a None-or-str value.
Truthy(v) == ~v.none /\ Len(v.s) > 0

(***************************************************************************)
(* bytes.decode("utf-8")                                                   *)
(***************************************************************************)
IsContinuation(b) == b >= 128 /\ b <= 191

\* Length of the UTF-8 sequence a lead byte announces; 0 for a byte that
\* cannot start one (continuation bytes, C0, C1, F5..FF).
Utf8Width(b) ==
    IF b < 128 THEN 1
    ELSE IF b >= 194 /\ b <= 223 THEN 2
    ELSE IF b >= 224 /\ b <= 239 THEN 3
    ELSE IF b >= 240 /\ b <= 244 THEN 4
    ELSE 0

\* The second byte's range excludes overlong forms, surrogates and code
\* points above U+10FFFF.
Utf8SecondOk(b1, b2) ==
    IF b1 = 224 THEN b2 >= 160 /\ b2 <= 191
    ELSE IF b1 = 237 THEN b2 >= 128 /\ b2 <= 159
    ELSE IF b1 = 240 THEN b2 >= 144 /\ b2 <= 191
    ELSE IF b1 = 244 THEN b2 >= 128 /\ b2 <= 143
    ELSE IsContinuation(b2)

\* A well-formed sequence starts at i and ends no later than hi.
Utf8WellFormedAt(bytes, i, hi) ==
    LET w == Utf8Width(bytes[i])
    IN /\ w > 0
       /\ i + w - 1 <= hi
       /\ w >= 2 => Utf8SecondOk(bytes[i], bytes[i + 1])
       /\ \A k \in 2..(w - 1) : IsContinuation(bytes[i + k])

Utf8CodePoint(bytes, i) ==
    LET w == Utf8Width(bytes[i])
        c(k) == bytes[i + k] % 64
    IN IF w = 1 THEN bytes[i]
       ELSE IF w = 2 THEN (bytes[i] % 32) * 64 + c(1)
       ELSE IF w = 3 THEN (bytes[i] % 16) * 4096 + c(1) * 64 + c(2)
       ELSE (bytes[i] % 8) * 262144 + c(1) * 4096 + c(2) * 64 + c(3)

\* Strict decoding of bytes[i..hi], one sequence after the other, appended
\* to the text decoded so far: [ok, text]; ok is FALSE where Python raises
\* UnicodeDecodeError.
RECURSIVE Utf8DecodeFrom(_, _, _, _)
Utf8DecodeFrom(bytes, i, hi, decoded) ==
    IF i > hi THEN [ok |-> TRUE, text |-> decoded]
    ELSE IF ~Utf8WellFormedAt(bytes, i, hi) THEN [ok |-> FALSE, text |-> << >>]
    ELSE Utf8DecodeFrom(bytes, i + Utf8Width(bytes[i]), hi,
                        Append(decoded, Utf8CodePoint(bytes, i)))

\* Two decoded halves put together.
Utf8Both(left, right) ==
    IF left.ok /\ right.ok
    THEN [ok |-> TRUE, text |-> left.text \o right.text]
    ELSE [ok |-> FALSE, text |-> << >>]

\* The same decoding with the evaluation depth kept logarithmic: a long
\* range is cut at the first byte at or after its middle that is not a
\* continuation byte (such a byte starts a sequence in every well-formed
\* input, and four continuation bytes in a row are never well-formed), and
\* the two halves are decoded on their own.
RECURSIVE Utf8DecodeRange(_, _, _)
Utf8DecodeRange(bytes, lo, hi) ==
    IF hi - lo < 8 THEN Utf8DecodeFrom(bytes, lo, hi, << >>)
    ELSE LET mid == (lo + hi) \div 2
             cuts == { m \in mid..(mid + 3) : ~IsContinuation(bytes[m]) }
         IN IF cuts = {} THEN [ok |-> FALSE, text |-> << >>]
            ELSE LET m == CHOOSE c \in cuts : \A d \in cuts : c <= d
                 IN Utf8Both(Utf8DecodeRange(bytes, lo, m - 1),
                             Utf8DecodeRange(bytes, m, hi))

Utf8Decode(bytes) == Utf8DecodeRange(bytes, 1, Len(bytes))

(***************************************************************************)
(* extract_text_from_file                                                  *)
(***************************************************************************)
\* str.isspace() of one code point.
IsSpace(c) ==
    c \in (9..13) \cup (28..32) \cup {133, 160, 5760} \cup (8192..8202)
          \cup {8232, 8233, 8239, 8287, 12288}

\* bool(para.text.strip())
StripNonEmpty(text) == \E i \in 1..Len(text) : ~IsSpace(text[i])

\* [para.text for para in doc.paragraphs if para.text.strip()]
RECURSIVE NonBlankParagraphs(_)
NonBlankParagraphs(paragraphs) ==
    IF Len(paragraphs) = 0 THEN << >>
    ELSE (IF StripNonEmpty(Head(paragraphs)) THEN << Head(paragraphs) >> ELSE << >>)
         \o NonBlankParagraphs(Tail(paragraphs))

\* Variant: blank paragraphs are kept.
extract_text_from_file_keeps_blank(f) ==
    IF EndsWith(f.name, ".txt")
    THEN LET d == Utf8Decode(f.bytes)
         IN IF d.ok THEN [value |-> Str(d.text), error |-> FALSE]
                    ELSE [value |-> None, error |-> TRUE]
    ELSE IF EndsWith(f.name, ".docx")
    THEN IF f.docx_ok
         THEN [value |-> Str(Join(f.paragraphs, << 10 >>)), error |-> FALSE]
         ELSE [value |-> None, error |-> TRUE]
    ELSE [value |-> None, error |-> FALSE]

\* The value returned and whether st.error was called.
extract_text_from_file(f) ==
    IF EndsWith(f.name, ".txt")
    THEN LET d == Utf8Decode(f.bytes)
         IN IF d.ok THEN [value |-> Str(d.text), error |-> FALSE]
                    ELSE [value |-> None, error |-> TRUE]
    ELSE IF EndsWith(f.name, ".docx")
    THEN IF f.docx_ok
         THEN [value |-> Str(Join(NonBlankParagraphs(f.paragraphs), << 10 >>)),
               error |-> FALSE]
         ELSE [value |-> None, error |-> TRUE]
    ELSE [value |-> None, error |-> FALSE]


(***************************************************************************)
(* Values of a parsed JSON body                                            *)
(***************************************************************************)
\* What response.json() returns: None, a bool, an int, a float (counted in
\* tenths), a str, a list of values or a dict of members.
Value(type, n, text, items) ==
    [type |-> type, n |-> n, text |-> text, items |-> items]

JNull == Value("null", 0, << >>, << >>)
JBool(b) == Value("bool", IF b THEN 1 ELSE 0, << >>, << >>)
JInt(n) == Value("int", n, << >>, << >>)
JFloat(tenths) == Value("float", tenths, << >>, << >>)
JStr(s) == Value("str", 0, s, << >>)
JList(items) == Value("list", 0, << >>, items)
Member(key, v) == Value("member", 0, key, << v >>)
JDict(members) == Value("dict", 0, << >>, members)

\* key in d
HasKey(d, key) == \E i \in 1..Len(d.items) : d.items[i].text = key

\* d.get(key, default) of a dict
Get(d, key, default) ==
    IF HasKey(d, key)
    THEN d.items[CHOOSE i \in 1..Len(d.items) : d.items[i].text = key].items[1]
    ELSE default

\* bool(v)
PyTruthy(v) ==
    IF v.type = "null" THEN FALSE
    ELSE IF v.type \in {"bool", "int", "float"} THEN v.n # 0
    ELSE IF v.type = "str" THEN \E i \in 1..Len(v.text) : v.text[i] # ""
    ELSE Len(v.items) > 0

\* len(v) is defined: the other types raise TypeError.
HasLen(v) == v.type \in {"str", "list", "dict"}

\* What "for tc in v" goes through: the elements of a list, the characters
\* of a str, the keys of a dict.
Iterate(v) ==
    IF v.type = "list" THEN v.items
    ELSE IF v.type = "str" THEN [i \in 1..Len(v.text) |-> JStr(<< v.text[i] >>)]
    ELSE [i \in 1..Len(v.items) |-> JStr(v.items[i].text)]

Digit(d) == << "0", "1", "2", "3", "4", "5", "6", "7", "8", "9" >>[d + 1]

\* str(n) of a natural number.
RECURSIVE DecimalDigits(_)
DecimalDigits(n) ==
    IF n < 10 THEN << Digit(n) >>
    ELSE DecimalDigits(n \div 10) \o << Digit(n % 10) >>

\* repr(v), for strs without quote, backslash or control character.
RECURSIVE PyRepr(_)
PyRepr(v) ==
    IF v.type = "null" THEN << "N", "o", "n", "e" >>
    ELSE IF v.type = "bool"
    THEN IF v.n = 1 THEN << "T", "r", "u", "e" >> ELSE << "F", "a", "l", "s", "e" >>
    ELSE IF v.type = "int" THEN DecimalDigits(v.n)
    ELSE IF v.type = "float"
    THEN DecimalDigits(v.n \div 10) \o << ".", Digit(v.n % 10) >>
    ELSE IF v.type = "str" THEN << "'" >> \o v.text \o << "'" >>
    ELSE IF v.type = "member"
    THEN << "'" >> \o v.text \o << "'", ":", " " >> \o PyRepr(v.items[1])
    ELSE LET inner == Join([i \in 1..Len(v.items) |-> PyRepr(v.items[i])],
                           << ",", " " >>)
         IN IF v.type = "list" THEN << "[" >> \o inner \o << "]" >>
            ELSE << "{" >> \o inner \o << "}" >>

\* str(v), what an f-string puts in place of {v}.
PyStr(v) == IF v.type = "str" THEN v.text ELSE PyRepr(v)

(***************************************************************************)
(* The backend and the requests library                                    *)
(***************************************************************************)
\* No response data yet.
NoData == JNull

\* {"error": message}
ErrorDict(message) == JDict(<< Member(<< "error" >>, JStr(message)) >>)

\* What the environment does with one POST: the call raises cls(msg) before
\* an answer arrives (kind "raise"), or the backend answers with a status
\* and a body (kind "http"); response.json() raises cls(msg) when the body
\* does not parse (requests.JSONDecodeError, or ValueError with older
\* versions of the library).
Raise(cls, msg) ==
    [kind |-> "raise", cls |-> cls, msg |-> msg, status |-> 0,
     parses |-> FALSE, json |-> NoData]
Http(status, parses, json, cls, msg) ==
    [kind |-> "http", cls |-> cls, msg |-> msg, status |-> status,
     parses |-> parses, json |-> json]
NoOutcome == [kind |-> "none", cls |-> "", msg |-> "", status |-> 0,
              parses |-> FALSE, json |-> NoData]

\* isinstance(cls(), base) for the exception classes of the model.
IsInstance(cls, base) ==
    LET bases ==
        IF cls = "ReadTimeout" THEN {"ReadTimeout", "Timeout", "RequestException", "Exception"}
        ELSE IF cls = "ConnectTimeout"
             THEN {"ConnectTimeout", "ConnectionError", "Timeout", "RequestException", "Exception"}
        ELSE IF cls = "ConnectionError" THEN {"ConnectionError", "RequestException", "Exception"}
        ELSE IF cls = "SSLError" THEN {"SSLError", "ConnectionError", "RequestException", "Exception"}
        ELSE IF cls = "TooManyRedirects" THEN {"TooManyRedirects", "RequestException", "Exception"}
        ELSE IF cls = "JSONDecodeError"
             THEN {"JSONDecodeError", "RequestException", "ValueError", "Exception"}
        ELSE IF cls = "ValueError" THEN {"ValueError", "Exception"}
        ELSE {cls, "Exception"}
    IN base \in bases

\* Variant: the text is cut to the advertised limit before it is sent.
PostRequestTruncated(text) ==
    [sent |-> TRUE, path |-> "/generate_test_cases",
     srs |-> SubSeq(text, 1, IF Len(text) > 5000 THEN 5000 ELSE Len(text)),
     timeout |-> 120]

\* The POST of generate_test_cases_api.
PostRequest(text) ==
    [sent |-> TRUE, path |-> "/generate_test_cases", srs |-> text, timeout |-> 120]

NoRequest == [sent |-> FALSE, path |-> "", srs |-> << >>, timeout |-> 0]

\* Variant: the ConnectionError clause comes before the Timeout clause.
ExceptClauseConnectionFirst(cls, msg) ==
    IF IsInstance(cls, "ConnectionError")
    THEN [status |-> 503,
          data |-> ErrorDict(<< "Cannot connect to backend service. Please try again later." >>)]
    ELSE IF IsInstance(cls, "Timeout")
    THEN [status |-> 408,
          data |-> ErrorDict(<< "Request timed out. Please try with shorter SRS content." >>)]
    ELSE IF IsInstance(cls, "RequestException")
    THEN [status |-> 500, data |-> ErrorDict(<< "Request failed: ", msg >>)]
    ELSE [status |-> 500, data |-> ErrorDict(<< "Unexpected error: ", msg >>)]

\* The except clauses, tried in order.
ExceptClause(cls, msg) ==
    IF IsInstance(cls, "Timeout")
    THEN [status |-> 408,
          data |-> ErrorDict(<< "Request timed out. Please try with shorter SRS content." >>)]
    ELSE IF IsInstance(cls, "ConnectionError")
    THEN [status |-> 503,
          data |-> ErrorDict(<< "Cannot connect to backend service. Please try again later." >>)]
    ELSE IF IsInstance(cls, "RequestException")
    THEN [status |-> 500, data |-> ErrorDict(<< "Request failed: ", msg >>)]
    ELSE [status |-> 500, data |-> ErrorDict(<< "Unexpected error: ", msg >>)]

\* Variant: response.raise_for_status() is called before the return.
generate_test_cases_api_raise_for_status(text, o) ==
    IF o.kind = "http" /\ o.parses /\ o.status < 400
    THEN [status |-> o.status, data |-> o.json]
    ELSE IF o.kind = "http" /\ o.status >= 400
    THEN [status |-> 500, data |-> ErrorDict(<< "Request failed: ", "HTTPError" >>)]
    ELSE [status |-> IF IsInstance(o.cls, "Timeout") THEN 408
                     ELSE IF IsInstance(o.cls, "ConnectionError") THEN 503 ELSE 500,
          data |-> ErrorDict(<< "Request failed: ", o.msg >>)]

\* generate_test_cases_api(srs_text) when the POST meets outcome o.
generate_test_cases_api(text, o) ==
    IF o.kind = "http" /\ o.parses
    THEN [status |-> o.status, data |-> o.json]
    ELSE ExceptClause(o.cls, o.msg)

(***************************************************************************)
(* Result rendering                                                        *)
(***************************************************************************)
Delimiter == << " ", "-", " " >>

\* f"{i:02d}"
Format02d(i) ==
    IF i < 10 THEN << "0" >> \o DecimalDigits(i) ELSE DecimalDigits(i)

\* An exception nothing catches, and the line that raised it.
NoException == [type |-> "none", line |-> 0]
Raised(type, line) == [type |-> type, line |-> line]

\* One expander of the display loop: its label and what was put into it,
\* the three parts ("structured"), the test case as it is ("verbatim") or
\* nothing, when the loop body raised.
Block(label, shown, objective, steps, expected, written) ==
    [label |-> label, shown |-> shown, objective |-> objective,
     steps |-> steps, expected |-> expected, written |-> written]

\* ' - ' in tc, for a str (substring), a list (element) or a dict (key).
DelimiterIn(tc) ==
    IF tc.type = "str" THEN Contains(tc.text, Delimiter)
    ELSE IF tc.type = "list" THEN \E i \in 1..Len(tc.items) : tc.items[i] = JStr(Delimiter)
    ELSE \E i \in 1..Len(tc.items) : tc.items[i].text = Delimiter

\* Variant: two segments are enough for the structured display.
RenderCaseTwoParts(i, tc) ==
    IF tc.type \notin {"str", "list", "dict"}
    THEN [block |-> Block(Format02d(i), "nothing", << >>, << >>, << >>, JNull),
          exception |-> Raised("TypeError", 254)]
    ELSE IF tc.type # "str" /\ DelimiterIn(tc)
    THEN [block |-> Block(Format02d(i), "nothing", << >>, << >>, << >>, JNull),
          exception |-> Raised("AttributeError", 255)]
    ELSE IF tc.type # "str"
    THEN [block |-> Block(Format02d(i), "verbatim", << >>, << >>, << >>, tc),
          exception |-> NoException]
    ELSE LET parts == Split(tc.text, Delimiter)
         IN IF Len(parts) >= 2
            THEN [block |-> Block(Format02d(i), "structured", parts[1], parts[2],
                                  Join(SubSeq(parts, 3, Len(parts)), Delimiter), JNull),
                  exception |-> NoException]
            ELSE [block |-> Block(Format02d(i), "verbatim", << >>, << >>, << >>, tc),
                  exception |-> NoException]

\* The body of the display loop for the i-th test case: the expander and
\* the exception that ends the loop, if any.
RenderCase(i, tc) ==
    IF tc.type \notin {"str", "list", "dict"}
    THEN \* ' - ' in tc raises TypeError inside the opened expander
         [block |-> Block(Format02d(i), "nothing", << >>, << >>, << >>, JNull),
          exception |-> Raised("TypeError", 254)]
    ELSE IF DelimiterIn(tc)
    THEN IF tc.type # "str"
         THEN \* a list or a dict has no split
              [block |-> Block(Format02d(i), "nothing", << >>, << >>, << >>, JNull),
               exception |-> Raised("AttributeError", 255)]
         ELSE LET parts == Split(tc.text, Delimiter)
              IN IF Len(parts) >= 3
                 THEN [block |-> Block(Format02d(i), "structured", parts[1], parts[2],
                                       Join(SubSeq(parts, 3, Len(parts)), Delimiter),
                                       JNull),
                       exception |-> NoException]
                 ELSE [block |-> Block(Format02d(i), "verbatim", << >>, << >>, << >>, tc),
                       exception |-> NoException]
    ELSE [block |-> Block(Format02d(i), "verbatim", << >>, << >>, << >>, tc),
          exception |-> NoException]

\* for i, tc in enumerate(test_cases, 1), from the i-th case on, after the
\* expanders in done: the loop ends with the first exception.
RECURSIVE RenderCasesFrom(_, _, _)
RenderCasesFrom(cases, i, done) ==
    IF i > Len(cases) THEN [blocks |-> done, exception |-> NoException]
    ELSE LET r == RenderCase(i, cases[i])
         IN IF r.exception.type # "none"
            THEN [blocks |-> Append(done, r.block), exception |-> r.exception]
            ELSE RenderCasesFrom(cases, i + 1, Append(done, r.block))

RenderCases(cases) == RenderCasesFrom(cases, 1, << >>)

\* Variant: enumerate(test_cases) without the start index.
ExportTextZeroBased(cases) ==
    Join([i \in 1..Len(cases) |->
              DecimalDigits(i - 1) \o << ".", " " >> \o PyStr(cases[i])],
         << "\n" >>)

\* "\n".join([f"{i}. {tc}" for i, tc in enumerate(test_cases, 1)])
ExportText(cases) ==
    Join([i \in 1..Len(cases) |->
              DecimalDigits(i) \o << ".", " " >> \o PyStr(cases[i])],
         << "\n" >>)

\* What the "Handle response" section renders, and the exception that ended
\* it, if any.
Shown(p, b, e, widgets, msg, t, exc) ==
    [panel |-> p, blocks |-> b, export_text |-> e, widgets |-> widgets,
     error_msg |-> msg, tip |-> t, exception |-> exc]

\* Lines 240-289: the success box, the display loop and the export options
\* for a test_cases value that passed "if test_cases".
ShowCases(test_cases) ==
    IF ~HasLen(test_cases)
    THEN \* len(test_cases) raises before the success box is rendered
         Shown("none", << >>, << >>, {}, << >>, "none", Raised("TypeError", 242))
    ELSE LET cases == Iterate(test_cases)
             loop == RenderCases(cases)
         IN IF loop.exception.type # "none"
            THEN Shown("success", loop.blocks, << >>, {}, << >>, "none", loop.exception)
            ELSE Shown("success", loop.blocks, ExportText(cases),
                       {"download_button", "copy_button"}, << >>, "none", NoException)

\* Lines 292-297: the box of an empty result.
ShowNoCases == Shown("no_cases", << >>, << >>, {}, << >>, "none", NoException)

\* Lines 300-313: the Generation Failed box and the suggestion.
ShowFailure(status, data) ==
    Shown("failed", << >>, << >>, {},
          PyStr(Get(data, << "error" >>, JStr(<< "Unknown error occurred" >>))),
          IF status = 408 THEN "shorten"
          ELSE IF status = 503 THEN "wait" ELSE "none",
          NoException)

\* response_data.get of a value that is no dict raises AttributeError.
ShowNoDict(status) ==
    Shown("none", << >>, << >>, {}, << >>, "none",
          Raised("AttributeError", IF status = 200 THEN 237 ELSE 300))

\* Variant: the test_cases value is not tested for emptiness.
HandleResponseNoEmptyTest(status, data) ==
    IF data.type # "dict" THEN ShowNoDict(status)
    ELSE IF status = 200
    THEN ShowCases(Get(data, << "test_cases" >>, JList(<< >>)))
    ELSE ShowFailure(status, data)

\* Variant: a payload without the test_cases field goes to the failure branch.
HandleResponseFieldRequired(status, data) ==
    IF data.type # "dict" THEN ShowNoDict(status)
    ELSE IF status = 200 /\ HasKey(data, << "test_cases" >>)
    THEN LET test_cases == Get(data, << "test_cases" >>, JList(<< >>))
         IN IF PyTruthy(test_cases) THEN ShowCases(test_cases) ELSE ShowNoCases
    ELSE ShowFailure(status, data)

\* Lines 236-313.
HandleResponse(status, data) ==
    IF data.type # "dict" THEN ShowNoDict(status)
    ELSE IF status = 200
    THEN LET test_cases == Get(data, << "test_cases" >>, JList(<< >>))
         IN IF PyTruthy(test_cases) THEN ShowCases(test_cases) ELSE ShowNoCases
    ELSE ShowFailure(status, data)

(***************************************************************************)
(* Upload column and preview                                               *)
(***************************************************************************)
\* len(srs_text.split())
WordCount(text) ==
    Cardinality({ i \in 1..Len(text) :
                    ~IsSpace(text[i]) /\ (i = 1 \/ IsSpace(text[i - 1])) })

ContentWarning(char_count) ==
    IF char_count > 5000 THEN "truncate"
    ELSE IF char_count < 100 THEN "short"
    ELSE "none"

\* srs_text[:1000] + "..." if len(srs_text) > 1000 else srs_text
Preview(text) ==
    IF Len(text) > 1000 THEN TakeFirst(text, 1000) \o << 46, 46, 46 >> ELSE text

(***************************************************************************)
(* Sidebar: the health check                                               *)
(***************************************************************************)
\* What the environment does with the GET: it raises an exception whose
\* str is msg, or the backend answers; response.json() raises with msg when
\* the body does not parse.
HealthRaise(msg) ==
    [kind |-> "raise", status |-> 0, parses |-> FALSE, json |-> NoData, msg |-> msg]
HealthHttp(status, parses, json, msg) ==
    [kind |-> "http", status |-> status, parses |-> parses, json |-> json, msg |-> msg]

\* check_backend_health() when the GET meets h: (is_healthy, health_data).
check_backend_health(h) ==
    IF h.kind = "http" /\ h.status = 200 /\ h.parses
    THEN [is_healthy |-> TRUE, health_data |-> h.json]
    ELSE IF h.kind = "http" /\ h.status # 200
    THEN [is_healthy |-> FALSE, health_data |-> JNull]
    ELSE [is_healthy |-> FALSE, health_data |-> JStr(<< h.msg >>)]

NoStatus == [box |-> "none", detail |-> << >>]

\* Lines 107-121: the status box, or the AttributeError of health_data.get
\* when the body of the 200 answer is no dict.
SidebarStatus(is_healthy, health_data) ==
    IF is_healthy
    THEN IF health_data.type = "dict"
         THEN [panel |-> [box |-> "online",
                          detail |-> << PyStr(Get(health_data, << "memory" >>,
                                                  JStr(<< "N/A" >>))),
                                        PyStr(Get(health_data, << "model_loaded" >>,
                                                  JStr(<< "Unknown" >>))) >>],
               exception |-> NoException]
         ELSE [panel |-> NoStatus, exception |-> Raised("AttributeError", 111)]
    ELSE [panel |-> [box |-> "offline",
                     detail |-> << IF PyTruthy(health_data) THEN PyStr(health_data)
                                   ELSE << "Connection failed" >> >>],
          exception |-> NoException]

(***************************************************************************)
(* Inputs of the session                                                   *)
(***************************************************************************)
\* A text of n letters "x".
LongText(n) == SubSeq([i \in 1..n |-> 120], 1, n)

\* Uploads of the session runs: empty, short, badly encoded and long plain
\* text; corrupt, blank and ordinary documents; a name with an upper-case
\* extension, which the uploader's type filter lets through.
SessionFiles ==
    { File("srs.txt", << >>, FALSE, << >>),
      File("srs.txt", << 72, 105 >>, FALSE, << >>),
      File("srs.txt", << 72, 255 >>, FALSE, << >>),
      File("srs.txt", LongText(5001), FALSE, << >>),
      File("srs.docx", << >>, FALSE, << >>),
      File("srs.docx", << >>, TRUE, << << 32 >>, << >> >>),
      File("srs.docx", << >>, TRUE, << LongText(150) >>),
      File("SRS.TXT", << 72, 105 >>, FALSE, << >>) }

CaseStructured == << "a", " ", "-", " ", "b", " ", "-", " ", "c" >>
CasePlain == << "a", "b" >>

\* Values of the test_cases field: lists of strs, empty or not; lists with
\* an element that is no str; values that are no list.
SessionTestCases ==
    { JList(<< >>),
      JList(<< JStr(CaseStructured) >>),
      JList(<< JStr(CasePlain), JStr(CaseStructured) >>),
      JList(<< JInt(1) >>),
      JList(<< JNull, JStr(CasePlain) >>),
      JList(<< JStr(CasePlain), JFloat(25) >>),
      JList(<< JList(<< JStr(CasePlain) >>), JStr(CasePlain) >>),
      JList(<< JList(<< JStr(Delimiter) >>) >>),
      JInt(5),
      JInt(0),
      JNull,
      JStr(CasePlain),
      JDict(<< Member(<< "k" >>, JInt(1)) >>) }

\* Values of the error field.
SessionErrors == { JStr(<< "backend error" >>), JNull }

\* Parsed bodies the backend may answer with: values that are no dict, and
\* dicts with or without the two fields the script reads.
SessionBodies ==
    { JList(<< >>), JNull, JStr(<< "o", "k" >>), JDict(<< >>) }
    \cup { JDict(<< Member(<< "test_cases" >>, tcs) >>) : tcs \in SessionTestCases }
    \cup { JDict(<< Member(<< "error" >>, err) >>) : err \in SessionErrors }
    \cup { JDict(<< Member(<< "test_cases" >>, tcs), Member(<< "error" >>, err) >>) :
             tcs \in { JList(<< >>), JList(<< JStr(CaseStructured) >>) },
             err \in SessionErrors }

SessionStatuses == {200, 201, 408, 500, 503}

SessionOutcomes ==
    { Raise(cls, msg) :
        cls \in {"ReadTimeout", "ConnectTimeout", "ConnectionError", "SSLError",
                 "TooManyRedirects", "TypeError"},
        msg \in {"", "detail"} }
    \cup { Http(st, TRUE, body, "", "") : st \in SessionStatuses, body \in SessionBodies }
    \cup { Http(st, FALSE, NoData, cls, "Expecting value") :
             st \in SessionStatuses, cls \in {"JSONDecodeError", "ValueError"} }

HealthOutcomes ==
    { HealthHttp(200, TRUE, JDict(<< Member(<< "memory" >>, JStr(<< "512MB" >>)),
                                     Member(<< "model_loaded" >>, JBool(TRUE)) >>), ""),
      HealthHttp(200, TRUE, JList(<< >>), ""),
      HealthHttp(200, TRUE, JNull, ""),
      HealthHttp(200, TRUE, JStr(<< "o", "k" >>), ""),
      HealthHttp(200, FALSE, NoData, "Expecting value"),
      HealthHttp(503, TRUE, JDict(<< >>), ""),
      HealthRaise("timed out"),
      HealthRaise("") }

(***************************************************************************)
(* The session                                                             *)
(***************************************************************************)
\* State after the first run of the script: nothing uploaded.
Init ==
    /\ uploaded_file = NoFile
    /\ srs_text = Str(<< >>)
    /\ pc = "idle"
    /\ clicked = FALSE
    /\ health_clicked = FALSE
    /\ rendered = {"health_button", "file_uploader"}
    /\ file_error = FALSE
    /\ stats = [chars |-> 0, words |-> 0]
    /\ warning = "none"
    /\ preview_text = << >>
    /\ request = NoRequest
    /\ outcome = NoOutcome
    /\ status_code = 0
    /\ response_data = NoData
    /\ panel = "none"
    /\ blocks = << >>
    /\ export_text = << >>
    /\ error_msg = << >>
    /\ tip = "none"
    /\ health_panel = NoStatus
    /\ exception = NoException
    /\ from_panel = "none"

\* A widget interaction re-executes the script from the top (a run still in
\* progress is stopped): everything the previous run showed is gone.  The
\* sidebar button comes first; when it was pressed the run waits for the
\* health request, otherwise it goes on to the uploader, sets srs_text to
\* "" and, when the uploader holds a file, to the extraction.
BeginRun(f, generate, health) ==
    /\ uploaded_file' = f
    /\ srs_text' = Str(<< >>)
    /\ clicked' = generate
    /\ health_clicked' = health
    /\ rendered' = IF health THEN {"health_button"}
                   ELSE {"health_button", "file_uploader"}
    /\ file_error' = FALSE
    /\ stats' = [chars |-> 0, words |-> 0]
    /\ warning' = "none"
    /\ preview_text' = << >>
    /\ request' = NoRequest
    /\ outcome' = NoOutcome
    /\ status_code' = 0
    /\ response_data' = NoData
    /\ panel' = "none"
    /\ blocks' = << >>
    /\ export_text' = << >>
    /\ error_msg' = << >>
    /\ tip' = "none"
    /\ health_panel' = NoStatus
    /\ exception' = NoException
    /\ from_panel' = panel
    /\ pc' = IF health THEN "health"
             ELSE IF f # NoFile THEN "extract" ELSE "idle"

\* The user puts a file into the uploader.
Upload ==
    /\ "file_uploader" \in rendered
    /\ \E f \in SessionFiles : BeginRun(f, FALSE, FALSE)

\* The user removes the file from the uploader.
RemoveFile ==
    /\ "file_uploader" \in rendered
    /\ uploaded_file # NoFile
    /\ BeginRun(NoFile, FALSE, FALSE)

\* The user presses "Generate Test Cases".
ClickGenerate ==
    /\ "generate_button" \in rendered
    /\ BeginRun(uploaded_file, TRUE, FALSE)

\* The user presses "Check Backend Status".
ClickHealth ==
    /\ "health_button" \in rendered
    /\ BeginRun(uploaded_file, FALSE, TRUE)

\* The user presses "Copy to Clipboard": a rerun in which the Generate
\* button is not pressed, so the results section is not executed.
ClickCopy ==
    /\ "copy_button" \in rendered
    /\ BeginRun(uploaded_file, FALSE, FALSE)

\* Several interactions arrive while the run waits and are served by one
\* re-execution: the uploader has its latest value and every button that
\* was pressed is pressed.
CoalescedEvents ==
    /\ pc # "idle"
    /\ \E f \in (IF "file_uploader" \in rendered THEN SessionFiles \cup {NoFile} ELSE {})
                   \cup {uploaded_file},
          generate \in IF "generate_button" \in rendered THEN BOOLEAN ELSE {FALSE},
          health \in IF "health_button" \in rendered THEN BOOLEAN ELSE {FALSE} :
         /\ \/ f # uploaded_file /\ (generate \/ health)
            \/ generate /\ health
         /\ BeginRun(f, generate, health)

\* Lines 103-121: the health request ends and the sidebar shows the status
\* box; the run goes on to the uploader.  When health_data.get raises, the
\* run ends inside the sidebar: the uploader is not rendered, and whether
\* it still holds its file in the next run depends on the framework (a
\* widget that a run has not rendered may lose its value).
HealthAnswer ==
    /\ pc = "health"
    /\ \E h \in HealthOutcomes :
         LET r == check_backend_health(h)
             s == SidebarStatus(r.is_healthy, r.health_data)
         IN IF s.exception.type # "none"
            THEN /\ exception' = s.exception
                 /\ uploaded_file' \in {uploaded_file, NoFile}
                 /\ pc' = "idle"
                 /\ UNCHANGED << health_panel, rendered >>
            ELSE /\ health_panel' = s.panel
                 /\ rendered' = rendered \cup {"file_uploader"}
                 /\ pc' = IF uploaded_file # NoFile THEN "extract" ELSE "idle"
                 /\ UNCHANGED << exception, uploaded_file >>
    /\ UNCHANGED << srs_text, clicked, health_clicked, file_error, stats, warning,
                    preview_text, request, outcome, status_code, response_data,
                    panel, blocks, export_text, error_msg, tip, from_panel >>

\* Variant: the test is "srs_text is not None".
HasContentNotNone(t) == ~t.none

\* Variant: content above the advertised limit is refused.
HasContentUnderLimit(t) == Truthy(t) /\ Len(t.s) <= 5000

\* if srs_text: (the statistics, the preview and the generation section
\* are each under this test)
HasContent(t) == Truthy(t)

\* Lines 154-217: extraction, statistics, preview and Generate button; when
\* the button was pressed, the progress bar up to the first pause.
Extract ==
    /\ pc = "extract"
    /\ LET r == extract_text_from_file(uploaded_file)
           t == r.value
       IN /\ srs_text' = t
          /\ file_error' = r.error
          /\ IF HasContent(t)
             THEN /\ stats' = [chars |-> Len(t.s), words |-> WordCount(t.s)]
                  /\ warning' = ContentWarning(Len(t.s))
                  /\ preview_text' = Preview(t.s)
                  /\ rendered' = rendered \cup {"preview", "generate_button"}
                  /\ pc' = IF clicked THEN "connecting" ELSE "idle"
             ELSE /\ pc' = "idle"
                  /\ UNCHANGED << stats, warning, preview_text, rendered >>
    /\ UNCHANGED << uploaded_file, clicked, health_clicked, request, outcome,
                    status_code, response_data, panel, blocks, export_text,
                    error_msg, tip, health_panel, exception, from_panel >>

\* Lines 219-224: the pause is over and generate_test_cases_api sends the
\* POST.
Connect ==
    /\ pc = "connecting"
    /\ request' = PostRequest(srs_text.s)
    /\ pc' = "generating"
    /\ UNCHANGED << uploaded_file, srs_text, clicked, health_clicked, rendered,
                    file_error, stats, warning, preview_text, outcome, status_code,
                    response_data, panel, blocks, export_text, error_msg, tip,
                    health_panel, exception, from_panel >>

\* Lines 224-229: the POST ends (answer, timeout or other failure),
\* generate_test_cases_api returns and the progress bar goes to the second
\* pause.
RespondFrom(outcomes) ==
    /\ pc = "generating"
    /\ \E o \in outcomes :
         LET res == generate_test_cases_api(request.srs, o)
         IN /\ outcome' = o
            /\ status_code' = res.status
            /\ response_data' = res.data
    /\ pc' = "formatting"
    /\ UNCHANGED << uploaded_file, srs_text, clicked, health_clicked, rendered,
                    file_error, stats, warning, preview_text, request, panel,
                    blocks, export_text, error_msg, tip, health_panel, exception,
                    from_panel >>

Respond == RespondFrom(SessionOutcomes)

\* Lines 231-313: the pause is over, the progress bar is removed and the
\* answer is handled; the run ends.
ShowResults ==
    /\ pc = "formatting"
    /\ LET out == HandleResponse(status_code, response_data)
       IN /\ panel' = out.panel
          /\ blocks' = out.blocks
          /\ export_text' = out.export_text
          /\ error_msg' = out.error_msg
          /\ tip' = out.tip
          /\ exception' = out.exception
          /\ rendered' = rendered \cup out.widgets
    /\ pc' = "idle"
    /\ UNCHANGED << uploaded_file, srs_text, clicked, health_clicked, file_error,
                    stats, warning, preview_text, request, outcome, status_code,
                    response_data, health_panel, from_panel >>

Next ==
    \/ Upload
    \/ RemoveFile
    \/ ClickGenerate
    \/ ClickHealth
    \/ ClickCopy
    \/ CoalescedEvents
    \/ HealthAnswer
    \/ Extract
    \/ Connect
    \/ Respond
    \/ ShowResults

Spec == Init /\ [][Next]_vars

(***************************************************************************)
(* Extraction runs: the state right after an upload, for every enumerated  *)
(* file, followed by the extraction step.                                  *)
(***************************************************************************)
ByteAlphabet == {10, 32, 65, 130, 169, 195, 224, 226, 255}

ParagraphTexts == { << >>, << 65 >>, << 66 >>, << 32 >>, << 32, 65 >>, << 9, 32 >> }

ExtractFiles ==
    { File("srs.txt", b, FALSE, << >>) : b \in SeqsUpTo(ByteAlphabet, MaxBytes) }
    \cup { File("srs.docx", << >>, TRUE, ps) : ps \in SeqsUpTo(ParagraphTexts, MaxParas) }
    \cup { File("srs.docx", << >>, FALSE, << >>),
           File("SRS.TXT", << 65 >>, FALSE, << >>),
           File("srs.txt", << 240, 159, 152, 128 >>, FALSE, << >>),
           File("srs.txt", << 237, 160, 128 >>, FALSE, << >>) }

\* The run started by an upload has reached the extraction.
Uploaded(f) ==
    /\ uploaded_file = f
    /\ srs_text = Str(<< >>)
    /\ pc = "extract"
    /\ clicked = FALSE
    /\ health_clicked = FALSE
    /\ rendered = {"health_button", "file_uploader"}
    /\ file_error = FALSE
    /\ stats = [chars |-> 0, words |-> 0]
    /\ warning = "none"
    /\ preview_text = << >>
    /\ request = NoRequest
    /\ outcome = NoOutcome
    /\ status_code = 0
    /\ response_data = NoData
    /\ panel = "none"
    /\ blocks = << >>
    /\ export_text = << >>
    /\ error_msg = << >>
    /\ tip = "none"
    /\ health_panel = NoStatus
    /\ exception = NoException
    /\ from_panel = "none"

InitExtract == \E f \in ExtractFiles : Uploaded(f)

SpecExtract == InitExtract /\ [][Extract]_vars

(***************************************************************************)
(* Rendering runs: a POST is pending and the backend answers 200 with one  *)
(* of the enumerated test-case lists.                                      *)
(***************************************************************************)
CaseAlphabet == {"a", " ", "-"}

CaseObjective == << "O", "b", "j", "e", "c", "t", "i", "v", "e", " ", "A", " ", "-", " ", "S", "t", "e", "p", " ", "1", " ", "-", " ", "E", "x", "p", "e", "c", "t", "e", "d", " ", "X" >>
CaseSentence == << "J", "u", "s", "t", " ", "o", "n", "e", " ", "s", "e", "n", "t", "e", "n", "c", "e" >>
CaseOne == << "C", "a", "s", "e", " ", "o", "n", "e" >>
CaseTwo == << "C", "a", "s", "e", " ", "t", "w", "o" >>
CaseFour == << "a", " ", "-", " ", "b", " ", "-", " ", "c", " ", "-", " ", "d" >>

\* Elements of the enumerated lists: strs, a number and a nested list.
ExportCases ==
    { JStr(CaseOne), JStr(CaseTwo), JStr(CasePlain), JStr(<< >>), JInt(7),
      JList(<< JStr(CasePlain) >>) }

RenderLists ==
    { << JStr(tc) >> : tc \in SeqsUpTo(CaseAlphabet, MaxCaseLen) }
    \cup SeqsUpTo(ExportCases, MaxCases)
    \cup { << JStr(CaseObjective), JStr(CaseSentence) >>, << JStr(CaseFour) >>,
           [i \in 1..12 |-> JStr(CasePlain)] }

RenderOutcomes ==
    { Http(200, TRUE, JDict(<< Member(<< "test_cases" >>, JList(tcs)) >>), "", "") :
        tcs \in RenderLists }

RenderFile == File("srs.txt", << 72, 105 >>, FALSE, << >>)

\* The run started by the Generate button has sent the POST.
InitRender ==
    /\ uploaded_file = RenderFile
    /\ srs_text = extract_text_from_file(RenderFile).value
    /\ pc = "generating"
    /\ clicked = TRUE
    /\ health_clicked = FALSE
    /\ rendered = {"health_button", "file_uploader", "preview", "generate_button"}
    /\ file_error = FALSE
    /\ stats = [chars |-> 2, words |-> 1]
    /\ warning = "short"
    /\ preview_text = Preview(srs_text.s)
    /\ request = PostRequest(srs_text.s)
    /\ outcome = NoOutcome
    /\ status_code = 0
    /\ response_data = NoData
    /\ panel = "none"
    /\ blocks = << >>
    /\ export_text = << >>
    /\ error_msg = << >>
    /\ tip = "none"
    /\ health_panel = NoStatus
    /\ exception = NoException
    /\ from_panel = "none"

Render == RespondFrom(RenderOutcomes)

SpecRender == InitRender /\ [][Render \/ ShowResults]_vars

(***************************************************************************)
(* Presentation states of the specification, read off the session          *)
(***************************************************************************)
FileLoaded == pc = "extract"
Generating == pc = "generating"
\* The run has ended after handling the answer of its POST.
Attempted == pc = "idle" /\ outcome.kind # "none"
\* The results are on screen: success box, every test-case block, export.
ResultsShown == Attempted /\ panel = "success" /\ exception.type = "none"
\* An error display and no results: the "no test cases" box, the
\* "Generation Failed" box, or the display of the exception that ended the
\* run before any result box.
ErrorShown ==
    /\ Attempted
    /\ \/ panel \in {"no_cases", "failed"}
       \/ panel = "none" /\ exception.type # "none"

\* The test_cases value the script reads from a dict payload.
TestCasesOf(data) == Get(data, << "test_cases" >>, JList(<< >>))

\* A list of strs with at least one element.
NonEmptyListOfStr(v) ==
    /\ v.type = "list"
    /\ Len(v.items) > 0
    /\ \A i \in 1..Len(v.items) : v.items[i].type = "str"

\* Some chunk of the message is not the empty string.
NonEmptyMessage(m) == \E i \in 1..Len(m) : m[i] # ""

(***************************************************************************)
(* Properties of the session (checked under Spec)                          *)
(***************************************************************************)

\* C1: the run is about to send the POST or waits for its answer only if
\* the uploader holds a file whose extraction, in this run, returned a
\* non-empty text; from there on srs_text is a non-empty text, the button
\* was rendered and pressed, and a request exists only from Generating on.
\* With no file, a failed extraction (None) or an empty text the session
\* is never in Generating and no request exists.
GenerationOnlyAfterExtraction ==
    /\ pc \in {"connecting", "generating"} =>
          LET extracted == extract_text_from_file(uploaded_file)
          IN /\ ~extracted.error
             /\ ~extracted.value.none
             /\ Len(extracted.value.s) > 0
             /\ srs_text = extracted.value
    /\ (pc \in {"connecting", "generating", "formatting"}
        \/ request.sent \/ outcome.kind # "none") =>
          /\ uploaded_file # NoFile
          /\ ~file_error
          /\ ~srs_text.none
          /\ Len(srs_text.s) > 0
          /\ clicked
          /\ "generate_button" \in rendered
    /\ request.sent <=> (pc \in {"generating", "formatting"} \/ outcome.kind # "none")
    /\ Generating => (request.sent /\ outcome.kind = "none")

\* C1 witness: the POST is pending for an extracted text.
GenerationStarted ==
    Generating /\ request.sent /\ Len(srs_text.s) > 0 /\ from_panel = "none"

\* C2: after a generation attempt the results (success box, one block per
\* test case, export) are on screen only if the client returned 200 with a
\* non-empty test_cases value, and they are whenever that value is a
\* non-empty list of strs; every local failure, every non-200 status and
\* every 200 with an empty list ends in an error display with no block and
\* no export: the Generation Failed box for a local failure or a non-200
\* dict payload, the no-cases box for an empty or absent list, and the
\* exception display for a payload that is no dict.
ResultsOnlyOnSuccess ==
    Attempted =>
        LET dict == response_data.type = "dict"
            tcs == IF dict THEN TestCasesOf(response_data) ELSE JList(<< >>)
            failure == \/ outcome.kind = "raise"
                       \/ ~outcome.parses
                       \/ status_code # 200
                       \/ (dict /\ tcs = JList(<< >>))
        IN /\ ResultsShown =>
                /\ status_code = 200
                /\ outcome.kind = "http" /\ outcome.parses
                /\ dict
                /\ HasLen(tcs) /\ Len(Iterate(tcs)) > 0
                /\ tcs.type = "list" => Len(tcs.items) > 0
                /\ Len(blocks) = Len(Iterate(tcs))
                /\ export_text # << >>
                /\ {"download_button", "copy_button"} \subseteq rendered
           /\ (status_code = 200 /\ dict /\ NonEmptyListOfStr(tcs)) => ResultsShown
           /\ failure =>
                /\ ErrorShown
                /\ ~ResultsShown
                /\ blocks = << >>
                /\ export_text = << >>
                /\ rendered \cap {"download_button", "copy_button"} = {}
           /\ outcome.kind = "raise" => panel = "failed"
           /\ (outcome.kind = "http" /\ ~outcome.parses) => panel = "failed"
           /\ (status_code # 200 /\ dict) => panel = "failed"
           /\ (status_code = 200 /\ dict /\ tcs = JList(<< >>)) => panel = "no_cases"
           /\ ~dict => (panel = "none" /\ exception.type = "AttributeError")
           /\ export_text # << >> => ResultsShown

\* C2 witness: a non-200 answer ended in the Generation Failed box although
\* its payload carries test cases.
FailureShown ==
    /\ Attempted
    /\ outcome.kind = "http"
    /\ outcome.status = 503
    /\ response_data.type = "dict"
    /\ NonEmptyListOfStr(TestCasesOf(response_data))
    /\ panel = "failed"
    /\ ErrorShown
    /\ blocks = << >>

\* C3: a 200 answer whose dict payload has an empty test_cases list, or no
\* test_cases field (or a field that is null or another empty value), ends
\* in the no-cases box (EmptyResult), not in the Generation Failed branch:
\* no error message, no status code, no tip, no exception.
EmptyResultNotFailure ==
    ( /\ Attempted
      /\ status_code = 200
      /\ response_data.type = "dict"
      /\ \/ ~HasKey(response_data, << "test_cases" >>)
         \/ TestCasesOf(response_data) = JList(<< >>)
         \/ ~PyTruthy(TestCasesOf(response_data)) )
    => /\ panel = "no_cases"
       /\ error_msg = << >>
       /\ tip = "none"
       /\ blocks = << >>
       /\ exception = NoException

\* C3 witness: 200 with a dict that has an error field and no test_cases.
EmptyResultShown ==
    /\ Attempted
    /\ status_code = 200
    /\ response_data.type = "dict"
    /\ ~HasKey(response_data, << "test_cases" >>)
    /\ HasKey(response_data, << "error" >>)
    /\ panel = "no_cases"

\* C4: every local failure of the POST comes back as a (status, {"error":
\* message}) pair with a non-empty message, and the script goes on to show
\* it: 408 for the timeout classes whatever the length of the text sent,
\* 503 for the connection failures, 500 "Request failed" for the other
\* errors of the requests library (a body that does not parse included,
\* with a current library), 500 "Unexpected error" for anything else.
FailureClassification ==
    (outcome.kind = "raise" \/ (outcome.kind = "http" /\ ~outcome.parses)) =>
        LET message == Get(response_data, << "error" >>, JNull)
        IN /\ response_data.type = "dict"
           /\ message.type = "str"
           /\ response_data = ErrorDict(message.text)
           /\ NonEmptyMessage(message.text)
           /\ pc \in {"formatting", "idle"}
           /\ pc = "idle" => /\ panel = "failed"
                             /\ error_msg = message.text
                             /\ exception = NoException
           /\ outcome.cls \in {"ReadTimeout", "ConnectTimeout"} =>
                  /\ status_code = 408
                  /\ message.text =
                       << "Request timed out. Please try with shorter SRS content." >>
           /\ outcome.cls \in {"ConnectionError", "SSLError"} =>
                  /\ status_code = 503
                  /\ message.text =
                       << "Cannot connect to backend service. Please try again later." >>
           /\ outcome.cls \in {"TooManyRedirects", "JSONDecodeError"} =>
                  /\ status_code = 500
                  /\ message.text = << "Request failed: ", outcome.msg >>
           /\ outcome.cls \in {"TypeError", "ValueError"} =>
                  /\ status_code = 500
                  /\ message.text = << "Unexpected error: ", outcome.msg >>

\* C4 witness: a connect timeout on a text of more than 5000 characters.
TimeoutOnLongText ==
    /\ Attempted
    /\ outcome.kind = "raise"
    /\ outcome.cls = "ConnectTimeout"
    /\ Len(request.srs) > 5000
    /\ status_code = 408
    /\ tip = "shorten"

\* C5 as stated: whenever the backend answered, the client returns the
\* remote status code (for every status and every body).
RemoteStatusForEveryBody ==
    outcome.kind = "http" => status_code = outcome.status

\* C5 amended: when the backend answered and the body parses as JSON, the
\* client returns the remote status and the parsed body unchanged, whatever
\* the status and whatever the JSON value (no schema validation); when the
\* body does not parse, response.json() raises and the client returns 500
\* with an error message in place of the remote status.
RemoteStatusAndBodyWhenParsed ==
    outcome.kind = "http" =>
        /\ outcome.parses => /\ status_code = outcome.status
                             /\ response_data = outcome.json
        /\ ~outcome.parses =>
              /\ status_code = 500
              /\ response_data.type = "dict"
              /\ HasKey(response_data, << "error" >>)
              /\ Get(response_data, << "error" >>, JNull).text[2] = outcome.msg

\* C5 witness: a 503 answer whose body is JSON but no dict came back as is.
ParsedBodyReturned ==
    /\ outcome.kind = "http"
    /\ outcome.parses
    /\ outcome.status = 503
    /\ outcome.json.type = "list"
    /\ status_code = 503
    /\ response_data = outcome.json

\* The failures of C6: the extraction failed, or the generation attempt
\* ended in anything but the results.
FailureInRun ==
    \/ file_error
    \/ srs_text.none
    \/ Attempted /\ ~ResultsShown

\* C6, state part: a run that has ended, unless it ended inside the sidebar
\* (an answer of the health check that is no dict), leaves the uploader on
\* screen, and the Generate button exactly when the extracted text is
\* non-empty; this holds after every failure of the extraction or of the
\* generation, which are never the ones that end a run inside the sidebar.
\* Whatever ended the run, the sidebar button is on screen, so the script
\* can be run again.
RetryPossible ==
    /\ pc = "idle" =>
          /\ "health_button" \in rendered
          /\ exception.line # 111 =>
                /\ "file_uploader" \in rendered
                /\ "generate_button" \in rendered <=> Truthy(srs_text)
                /\ Truthy(srs_text) => uploaded_file # NoFile
          /\ FailureInRun => exception.line # 111
    /\ pc \in {"idle", "health", "extract", "connecting", "generating", "formatting"}

\* A step by which the user starts a new run.
UserEvent ==
    \/ Upload
    \/ RemoveFile
    \/ ClickGenerate
    \/ ClickHealth
    \/ ClickCopy
    \/ CoalescedEvents

\* C6, step part: pressing the Generate button when a run has ended,
\* whatever is on screen, starts a run on the same file, whose text was
\* not empty; a run in which the button is pressed,
\* unless the user starts another one, goes from the extraction of a
\* non-empty text through the pause to Generating, where the POST is sent,
\* and on to the handling of the answer; a new file in the uploader puts
\* the session in FileLoaded with the old results gone.
RetryStep ==
    /\ (pc = "idle" /\ ClickGenerate) =>
           /\ pc' = "extract"
           /\ clicked'
           /\ uploaded_file' = uploaded_file
           /\ Truthy(srs_text)
    /\ (pc = "extract" /\ clicked /\ ~UserEvent) =>
           /\ srs_text' = extract_text_from_file(uploaded_file).value
           /\ Truthy(srs_text') => pc' = "connecting"
    /\ (pc = "connecting" /\ ~UserEvent) => (pc' = "generating" /\ request'.sent)
    /\ (pc = "generating" /\ ~UserEvent) => pc' = "formatting"
    /\ (pc = "formatting" /\ ~UserEvent) => pc' = "idle"
    /\ Upload => /\ pc' = "extract"
                 /\ FileLoaded'
                 /\ panel' = "none"
                 /\ blocks' = << >>
                 /\ srs_text' = Str(<< >>)

\* C6: nothing is fatal; after any failure the user can upload again and,
\* with a non-empty text, generate again.
NothingIsFatal == [](RetryPossible) /\ [][RetryStep]_vars

\* C6 witness: a new attempt is in Generating after a failed one.
RetryAfterFailure == Generating /\ from_panel = "failed"

\* C10: the "srs" field of the POST is the whole extracted text (what
\* extract_text_from_file returns for the file, which is srs_text), also
\* when the truncation warning is shown (more than 5000 characters); only
\* the preview is cut, to the first 1000 characters followed by "...".
ClientNeverTruncates ==
    /\ Generating =>
          request.srs = extract_text_from_file(uploaded_file).value.s
    /\ request.sent =>
          /\ request.srs = srs_text.s
          /\ Len(request.srs) = stats.chars
          /\ request.path = "/generate_test_cases"
    /\ "preview" \in rendered =>
          /\ warning = "truncate" <=> Len(srs_text.s) > 5000
          /\ Len(srs_text.s) <= 1000 => preview_text = srs_text.s
          /\ Len(srs_text.s) > 1000 =>
                /\ Len(preview_text) = 1003
                /\ SubSeq(preview_text, 1, 1000) = SubSeq(srs_text.s, 1, 1000)
                /\ SubSeq(preview_text, 1001, 1003) = << 46, 46, 46 >>

\* C10 witness: a text of 5001 characters was sent whole under the warning.
LongTextSentWhole ==
    /\ request.sent
    /\ warning = "truncate"
    /\ Len(request.srs) = 5001
    /\ Len(preview_text) = 1003
(***************************************************************************)
(* Properties of the extraction (checked under SpecExtract)                *)
(***************************************************************************)
\* The scalar value a lead byte and its continuation bytes carry.
ScalarAt(bytes, i, w) ==
    IF w = 1 THEN bytes[i]
    ELSE IF w = 2 THEN (bytes[i] - 192) * 64 + (bytes[i + 1] - 128)
    ELSE IF w = 3 THEN (bytes[i] - 224) * 4096 + (bytes[i + 1] - 128) * 64
                       + (bytes[i + 2] - 128)
    ELSE (bytes[i] - 240) * 262144 + (bytes[i + 1] - 128) * 4096
         + (bytes[i + 2] - 128) * 64 + (bytes[i + 3] - 128)

\* Well-formed UTF-8, stated byte by byte: every byte that is not a
\* continuation byte opens a sequence of the announced length, made of
\* continuation bytes, that is the shortest form of a Unicode scalar value,
\* and the byte after it (if any) opens the next one.
Utf8Valid(bytes) ==
    /\ Len(bytes) > 0 => ~(bytes[1] \in 128..191)
    /\ \A i \in 1..Len(bytes) :
         ~(bytes[i] \in 128..191) =>
            LET b == bytes[i]
                w == IF b < 128 THEN 1
                     ELSE IF b \div 32 = 6 THEN 2
                     ELSE IF b \div 16 = 14 THEN 3
                     ELSE IF b \div 8 = 30 THEN 4
                     ELSE 0
            IN /\ w > 0
               /\ i + w - 1 <= Len(bytes)
               /\ \A k \in 1..(w - 1) : bytes[i + k] \in 128..191
               /\ i + w <= Len(bytes) => ~(bytes[i + w] \in 128..191)
               /\ LET c == ScalarAt(bytes, i, w)
                  IN /\ w = 2 => c >= 128
                     /\ w = 3 => c >= 2048 /\ ~(c \in 55296..57343)
                     /\ w = 4 => c >= 65536 /\ c <= 1114111

\* str.encode("utf-8") of one code point and of a text.
EncodeScalar(c) ==
    IF c < 128 THEN << c >>
    ELSE IF c < 2048 THEN << 192 + (c \div 64), 128 + (c % 64) >>
    ELSE IF c < 65536
    THEN << 224 + (c \div 4096), 128 + ((c \div 64) % 64), 128 + (c % 64) >>
    ELSE << 240 + (c \div 262144), 128 + ((c \div 4096) % 64),
            128 + ((c \div 64) % 64), 128 + (c % 64) >>

RECURSIVE Utf8Encode(_)
Utf8Encode(text) ==
    IF Len(text) = 0 THEN << >>
    ELSE EncodeScalar(Head(text)) \o Utf8Encode(Tail(text))

\* The text of a paragraph with leading and trailing whitespace removed.
Trimmed(text) ==
    LET inked == { i \in 1..Len(text) : ~IsSpace(text[i]) }
    IN IF inked = {} THEN << >>
       ELSE SubSeq(text, CHOOSE a \in inked : \A i \in inked : a <= i,
                         CHOOSE b \in inked : \A i \in inked : i <= b)

TrimmedNonEmpty(text) == Trimmed(text) # << >>

\* C9: extraction of a .txt file with well-formed UTF-8 content returns the
\* text whose UTF-8 encoding is the content, byte for byte, and shows no
\* error; of a .docx file that opens, the paragraphs whose trimmed text is
\* non-empty, in order, one per line (["A", "", "B"] gives "A\nB"); a
\* content that is not well-formed UTF-8, or a document that does not open,
\* gives None and an error message, and the run goes on.
ExtractionContract ==
    (pc = "idle" /\ uploaded_file # NoFile) =>
        /\ uploaded_file.name = "srs.txt" =>
              IF Utf8Valid(uploaded_file.bytes)
              THEN /\ ~srs_text.none
                   /\ \A i \in 1..Len(srs_text.s) : srs_text.s[i] \in 0..1114111
                   /\ Utf8Encode(srs_text.s) = uploaded_file.bytes
                   /\ ~file_error
              ELSE srs_text = None /\ file_error
        /\ uploaded_file.name = "srs.docx" =>
              IF uploaded_file.docx_ok
              THEN LET kept == SelectSeq(uploaded_file.paragraphs, TrimmedNonEmpty)
                   IN /\ ~srs_text.none
                      /\ ~file_error
                      /\ kept = << >> => srs_text.s = << >>
                      /\ kept # << >> => Split(srs_text.s, << 10 >>) = kept
              ELSE srs_text = None /\ file_error
        /\ uploaded_file.paragraphs = << << 65 >>, << >>, << 66 >> >> =>
              srs_text.s = << 65, 10, 66 >>

\* C9 witness: the paragraphs ["A", "", "B"] were extracted as "A\nB".
BlankParagraphDropped ==
    /\ pc = "idle"
    /\ uploaded_file.name = "srs.docx"
    /\ uploaded_file.paragraphs = << << 65 >>, << >>, << 66 >> >>
    /\ srs_text = Str(<< 65, 10, 66 >>)


(***************************************************************************)
(* Properties of the result rendering (checked under SpecRender)           *)
(***************************************************************************)
\* The delimiter occurs twice in tc without overlap.
TwoDelimiters(tc) ==
    \E i \in 1..Len(tc), j \in 1..Len(tc) :
        /\ OccursAt(tc, Delimiter, i)
        /\ OccursAt(tc, Delimiter, j)
        /\ j >= i + 3

\* C7: a test-case string in which " - " occurs twice without overlap (the
\* split has three or more segments) is shown as objective, steps and
\* expected result, where objective is what precedes the first delimiter,
\* steps what lies between it and the next one, and expected all the rest,
\* so that objective + " - " + steps + " - " + expected is the test case;
\* any other test-case string is written unchanged.
SplitDisplay ==
    (pc = "idle" /\ panel = "success") =>
        LET cases == Iterate(TestCasesOf(response_data))
        IN /\ Len(blocks) <= Len(cases)
           /\ \A k \in 1..Len(blocks) :
                LET tc == cases[k]
                    b == blocks[k]
                IN tc.type = "str" =>
                   /\ b.shown = "structured" <=> TwoDelimiters(tc.text)
                   /\ b.shown # "structured" => (b.shown = "verbatim" /\ b.written = tc)
                   /\ b.shown = "structured" =>
                         /\ b.objective \o Delimiter \o b.steps \o Delimiter \o b.expected
                               = tc.text
                         /\ \A h \in 1..Len(b.objective) : ~OccursAt(tc.text, Delimiter, h)
                         /\ ~Contains(b.steps, Delimiter)
                         /\ \A h \in 1..Len(b.steps) :
                                ~OccursAt(tc.text, Delimiter, Len(b.objective) + 3 + h)
                   /\ tc.text = CaseObjective =>
                         /\ b.objective = << "O", "b", "j", "e", "c", "t", "i", "v", "e", " ", "A" >>
                         /\ b.steps = << "S", "t", "e", "p", " ", "1" >>
                         /\ b.expected = << "E", "x", "p", "e", "c", "t", "e", "d", " ", "X" >>
                   /\ tc.text = CaseSentence =>
                         (b.shown = "verbatim" /\ b.written = JStr(CaseSentence))

\* C7 witness: a test case with three delimiters is shown with the last of
\* them inside the expected result.
ExpectedRejoined ==
    /\ ResultsShown
    /\ blocks[1].shown = "structured"
    /\ blocks[1].objective = << "a" >>
    /\ blocks[1].steps = << "b" >>
    /\ blocks[1].expected = << "c", " ", "-", " ", "d" >>

\* The decimal numeral of k and the two-digit label of k, for k below 100.
Numeral(k) ==
    IF k < 10 THEN << Digit(k) >> ELSE << Digit(k \div 10), Digit(k % 10) >>
Label(k) == << Digit(k \div 10), Digit(k % 10) >>

\* C8: for a non-empty list of test-case strings the export text has one
\* line per test case, in list order, line k being "k. " followed by the
\* case, k counted from 1, with no line before, between or after them; the
\* label of block k carries the same k.
ExportNumbered ==
    (Attempted /\ status_code = 200 /\ NonEmptyListOfStr(TestCasesOf(response_data))) =>
        LET tcs == TestCasesOf(response_data).items
            lines == Split(export_text, << "\n" >>)
        IN /\ ResultsShown
           /\ Len(lines) = Len(tcs)
           /\ \A k \in 1..Len(tcs) : lines[k] = Numeral(k) \o << ".", " " >> \o tcs[k].text
           /\ Len(blocks) = Len(tcs)
           /\ \A k \in 1..Len(tcs) : blocks[k].label = Label(k)
           /\ tcs = << JStr(CaseOne), JStr(CaseTwo) >> => export_text = << "1", ".", " ", "C", "a", "s", "e", " ", "o", "n", "e", "\n", "2", ".", " ", "C", "a", "s", "e", " ", "t", "w", "o" >>

\* C8 witness: ["Case one", "Case two"] was exported.
TwoCasesExported ==
    /\ ResultsShown
    /\ TestCasesOf(response_data) = JList(<< JStr(CaseOne), JStr(CaseTwo) >>)
    /\ export_text = << "1", ".", " ", "C", "a", "s", "e", " ", "o", "n", "e", "\n", "2", ".", " ", "C", "a", "s", "e", " ", "t", "w", "o" >>
    /\ blocks[2].label = << "0", "2" >>

====
